---- MODULE Spec2Model ----
(***************************************************************************)
(* Authentication / session lifecycle of the mclub auth service            *)
(* (src/src/services/auth.py and the adapters it calls).                   *)
(*                                                                         *)
(* Time is counted in ticks of the JWT timestamp resolution: PyJWT writes  *)
(* iat/exp as whole seconds, so two tokens minted in the same tick with    *)
(* the same payload are the same string.  The three validity windows of    *)
(* core/config.py are scaled down to a few ticks.                          *)
(*                                                                         *)
(* services/session.py:17 passes user_id/session_id/refresh_token/         *)
(* expires_at to SessionRepository.create_session; the model inserts the   *)
(* row those four fields describe.                                         *)
(***************************************************************************)
EXTENDS Integers, Sequences, FiniteSets, TLC

\* ------------------------------------------------------------- bounds
MaxClock == 2                              \* the clock stops here
MaxPending == 1                            \* requests suspended at once (SpecRace)
MaxFaults == 1                             \* adapter calls that fail (SpecFault)
access_token_expire_minutes == 1           \* core/config.py:45 (30 min), scaled
refresh_token_expire_minutes == 2          \* core/config.py:46 (3600 min), scaled
verification_code_expiration_seconds == 1  \* core/config.py:48 (300 s), scaled
MaxTtl == 2                                \* largest expire_token drawn (SpecCodec)
SubTicks == 2                              \* instants per tick (SpecCodec)

Emails == {"a@x.com", "b@x.com"}
Codes == {"482913", "100000"}              \* verification_code_length digits each
Names == {"Ann"}
MoreNames == {"Ann", "Bob"}                \* SpecNames
Slots == 1..MaxPending
\* the values uuid.uuid4() returns, named in the order they are drawn
SessionIds == {1, 2}

\* ------------------------------------------------------------- values
PrivateKey == "jwt-private"
NoToken == [sub |-> 0, jid |-> 0, role |-> "", is_refresh |-> FALSE,
            iat |-> 0, exp |-> 0, sig |-> ""]
NoSignup == [email |-> "", first_name |-> ""]
NoRecord == [verification_code |-> "", signup_data |-> NoSignup, exp |-> 0]
\* a users row that has been deleted; its id is not given out again
NoUser == [email |-> "", first_name |-> "", role |-> "", is_active |-> FALSE]
NoFault == "none"
Idle == [kind |-> "idle", tok |-> NoToken, access |-> NoToken,
         refresh |-> NoToken, sid |-> 0, at |-> 0]
\* the adapter call that fails during a request (at most one per request)
Faults == {NoFault, "code_set", "smtp", "code_get", "user_insert",
           "session_insert", "code_delete", "blacklist_get",
           "session_update", "session_delete", "blacklist_set"}

VARIABLES
    clock,       \* datetime.now(timezone.utc), in ticks
    users,       \* users table: row id -> row, ids 1..Len(users)
    sessions,    \* sessions table: id -> row, present ids only
    codes,       \* Redis verification_code:{email}
    blacklist,   \* Redis jid_black_list:{session_id} -> expiry tick
    nextSid,     \* number of session ids drawn so far
    issued,      \* every token handed to a caller
    signedOut,   \* session ids for which signout returned True
    deleted,     \* session ids whose row was deleted
    pend,        \* requests suspended at an await (SpecRace)
    faults,      \* adapter calls that have failed (SpecFault)
    last         \* the call that made the last change, and its response

vars == <<clock, users, sessions, codes, blacklist, nextSid, issued,
          signedOut, deleted, pend, faults, last>>

\* ------------------------------------------------------------- Token Codec
\* JWTHandler.encode: payload plus exp = now + expire_token and iat = now,
\* signed with the private key; no nonce.
encode(payload, expire_token, now) ==
    [sub |-> payload.sub, jid |-> payload.jid, role |-> payload.role,
     is_refresh |-> payload.is_refresh,
     iat |-> now, exp |-> now + expire_token, sig |-> PrivateKey]

\* mutant: ExpiredSignatureError is caught as the InvalidTokenError it
\* subclasses
get_payload_from_token_expired_invalid(token, now) ==
    IF token.sig # PrivateKey \/ token.exp <= now
    THEN [err |-> "InvalidToken", payload |-> NoToken]
    ELSE [err |-> "ok",
          payload |-> [sub |-> token.sub, jid |-> token.jid,
                       role |-> token.role, is_refresh |-> token.is_refresh]]

\* JWTHandler.decode / AuthService.get_payload_from_token: the signature
\* is verified first, then exp (PyJWT: expired when exp <= now).
get_payload_from_token(token, now) ==
    IF token.sig # PrivateKey THEN [err |-> "InvalidToken", payload |-> NoToken]
    ELSE IF token.exp <= now THEN [err |-> "TokenExpired", payload |-> NoToken]
    ELSE [err |-> "ok",
          payload |-> [sub |-> token.sub, jid |-> token.jid,
                       role |-> token.role, is_refresh |-> token.is_refresh]]

\* AuthService.__generate_auth_token
generate_auth_token(payload_data, is_refresh, now) ==
    encode([payload_data EXCEPT !.is_refresh = is_refresh],
           IF is_refresh THEN refresh_token_expire_minutes
                         ELSE access_token_expire_minutes,
           now)

\* mutant: both tokens of the pair are minted as access tokens
generate_auth_token_pair_one_class(payload, now) ==
    [access_token |-> generate_auth_token(payload, FALSE, now),
     refresh_token |-> generate_auth_token(payload, FALSE, now)]

\* AuthService.__generate_auth_token_pair
generate_auth_token_pair(payload, now) ==
    [access_token |-> generate_auth_token(payload, FALSE, now),
     refresh_token |-> generate_auth_token(payload, TRUE, now)]

\* ------------------------------------------------------------- stores
\* mutant: the expiry is passed in the wrong unit and comes out shorter
add_session_in_black_list_short(bl, session_id, expiration, now) ==
    [s \in DOMAIN bl \cup {session_id} |->
        IF s = session_id THEN now + expiration - 1 ELSE bl[s]]

\* RedisHelper.add_session_in_black_list: SET jid_black_list:{id} EX expiration
add_session_in_black_list(bl, session_id, expiration, now) ==
    [s \in DOMAIN bl \cup {session_id} |->
        IF s = session_id THEN now + expiration ELSE bl[s]]

\* RedisHelper.session_in_black_list; a failed lookup is logged and
\* answered False.
session_in_black_list(session_id, f) ==
    IF f = "blacklist_get" THEN FALSE
    ELSE session_id \in DOMAIN blacklist /\ blacklist[session_id] > clock

\* RedisHelper.get_verification_code; a failed lookup is logged and
\* answered None.
get_verification_code(email, f) ==
    IF f = "code_get" \/ codes[email].exp <= clock THEN NoRecord
    ELSE codes[email]

\* mutant: a live record is not overwritten (SET ... NX)
add_verification_code_if_absent(cs, email, value, expiration, now) ==
    IF cs[email] # NoRecord /\ cs[email].exp > now THEN cs
    ELSE [cs EXCEPT ![email] = [verification_code |-> value.verification_code,
                                signup_data |-> value.signup_data,
                                exp |-> now + expiration]]

\* RedisHelper.add_verification_code: SET verification_code:{email} EX expiration
add_verification_code(cs, email, value, expiration, now) ==
    [cs EXCEPT ![email] = [verification_code |-> value.verification_code,
                           signup_data |-> value.signup_data,
                           exp |-> now + expiration]]

\* mutant: the record is never deleted
delete_verification_code_never(cs, email, f) == cs

\* mutant: only a record that carries signup data is deleted
delete_verification_code_signup_only(cs, email, f) ==
    IF f = "code_delete" \/ cs[email].signup_data = NoSignup THEN cs
    ELSE [cs EXCEPT ![email] = NoRecord]

\* RedisHelper.delete_verification_code; a failed delete is logged and
\* answered False.
delete_verification_code(cs, email, f) ==
    IF f = "code_delete" THEN cs ELSE [cs EXCEPT ![email] = NoRecord]

\* UserRepository.get_user(email=...): the rows select ... limit 1 may return
UsersByEmail(us, email) == {i \in DOMAIN us : us[i].email = email}

\* UserRepository.get_user(id=...): the row, or None (NoUser)
get_user_by_id(us, id) ==
    IF id \in DOMAIN us THEN us[id] ELSE NoUser

\* mutant: the new row is not active
create_user_inactive(us, signup_data, f) ==
    IF f = "user_insert" THEN us
    ELSE Append(us, [email |-> signup_data.email,
                     first_name |-> signup_data.first_name,
                     role |-> "User", is_active |-> FALSE])

\* UserRepository.create_user via UserService.create_user (role "User",
\* is_active defaults to True); a failed insert is logged and adds no row.
create_user(us, signup_data, f) ==
    IF f = "user_insert" THEN us
    ELSE Append(us, [email |-> signup_data.email,
                     first_name |-> signup_data.first_name,
                     role |-> "User", is_active |-> TRUE])

\* mutant: the row is not inserted
create_session_dropped(ss, user_id, session_id, refresh_token, expires_at, f) ==
    ss

\* SessionRepository.create_session; a failed insert is logged and adds no row.
create_session(ss, user_id, session_id, refresh_token, expires_at, f) ==
    IF f = "session_insert" THEN ss
    ELSE [s \in DOMAIN ss \cup {session_id} |->
            IF s = session_id
            THEN [user_id |-> user_id, refresh_token |-> refresh_token,
                  expires_at |-> expires_at]
            ELSE ss[s]]

\* mutant: only expires_at is written, the stored refresh token stays
update_session_expiry_only(ss, session_id, refresh_token, expires_at, f) ==
    IF f = "session_update" \/ session_id \notin DOMAIN ss THEN ss
    ELSE [ss EXCEPT ![session_id] =
            [user_id |-> ss[session_id].user_id,
             refresh_token |-> ss[session_id].refresh_token,
             expires_at |-> expires_at]]

\* mutant: only the refresh token is written, expires_at stays
update_session_token_only(ss, session_id, refresh_token, expires_at, f) ==
    IF f = "session_update" \/ session_id \notin DOMAIN ss THEN ss
    ELSE [ss EXCEPT ![session_id] =
            [user_id |-> ss[session_id].user_id,
             refresh_token |-> refresh_token,
             expires_at |-> ss[session_id].expires_at]]

\* SessionRepository.update_session: UPDATE of the loaded row; when the row
\* is gone or the commit fails the error is logged and nothing changes.
update_session(ss, session_id, refresh_token, expires_at, f) ==
    IF f = "session_update" \/ session_id \notin DOMAIN ss THEN ss
    ELSE [ss EXCEPT ![session_id] =
            [user_id |-> ss[session_id].user_id,
             refresh_token |-> refresh_token, expires_at |-> expires_at]]

\* mutant: the row is not deleted
delete_session_kept(ss, session_id) == ss

\* mutant: every row of the user that owns the session is deleted
delete_session_of_user(ss, session_id) ==
    [s \in {x \in DOMAIN ss : ss[x].user_id # ss[session_id].user_id} |-> ss[s]]

\* SessionRepository.delete_session
delete_session(ss, session_id) ==
    [s \in DOMAIN ss \ {session_id} |-> ss[s]]

\* AuthService.check_email_availability
check_email_availability(email) == UsersByEmail(users, email) = {}

\* f names the adapter call that raises during the request (NoFault: none);
\* the adapters catch the exception and log it
AdapterCall(f) ==
    /\ f # NoFault => faults < MaxFaults
    /\ faults' = IF f = NoFault THEN faults ELSE faults + 1


\* ------------------------------------------------------------- responses
\* A call that changes no store and no clock leaves every variable alone;
\* what it answers is the value of its result operator in that state.
Response(op, res, email, code, sid, tok, access, refresh) ==
    [op |-> op, res |-> res, email |-> email, code |-> code, sid |-> sid,
     tok |-> tok, access |-> access, refresh |-> refresh, branch |-> "",
     data |-> NoSignup, replaced |-> FALSE]

\* what a caller can present as a token: anything it was handed
Presentable == issued

\* and what it can make up: a token signed with another key, and a string
\* that is not a JWT
Forged == {[t EXCEPT !.sig = "forged"] : t \in issued} \cup {NoToken}

\* ------------------------------------------------------------- Verification Engine
\* mutant: signup does not look the email up
auth_request_result_signup_unchecked(op, email, f) ==
    LET available == check_email_availability(email)
    IN  IF op = "signin" /\ available THEN "EmailNotFound"
        ELSE IF f \in {"code_set", "smtp"} THEN "error"
        ELSE "ok"

\* mutant: signin does not look the email up
auth_request_result_signin_unchecked(op, email, f) ==
    LET available == check_email_availability(email)
    IN  IF op = "signup" /\ ~available THEN "EmailAlreadyExists"
        ELSE IF f \in {"code_set", "smtp"} THEN "error"
        ELSE "ok"

\* mutant: a failed SET or a failed delivery is not looked at
auth_request_result_faults_ignored(op, email, f) ==
    LET available == check_email_availability(email)
    IN  IF op = "signup" /\ ~available THEN "EmailAlreadyExists"
        ELSE IF op = "signin" /\ available THEN "EmailNotFound"
        ELSE "ok"

\* AuthService.signup / AuthService.signin: "ok" (True) or what is raised.
\* f = "code_set": Redis SET fails, add_verification_code answers False;
\* f = "smtp": EmailService.send_message answers False; both end in
\* ValueError ("error").
auth_request_result(op, email, f) ==
    LET available == check_email_availability(email)
    IN  IF op = "signup" /\ ~available THEN "EmailAlreadyExists"
        ELSE IF op = "signin" /\ available THEN "EmailNotFound"
        ELSE IF f \in {"code_set", "smtp"} THEN "error"
        ELSE "ok"

\* a live record is stored for the email, with another code or other data
\* (noted in the response of a signup)
OtherRecord(email, value) ==
    /\ codes[email] # NoRecord /\ codes[email].exp > clock
    /\ \/ codes[email].verification_code # value.verification_code
       \/ codes[email].signup_data # value.signup_data

\* mutant: the record is taken back when the mail is not delivered
auth_request_rolled_back(op, email, signup_data, code, f) ==
    LET res == auth_request_result(op, email, f)
        value == [verification_code |-> code, signup_data |-> signup_data]
    IN  IF res \in {"EmailAlreadyExists", "EmailNotFound"} \/ f = "code_set"
        THEN UNCHANGED <<codes, last>>
        ELSE /\ codes' = IF f = "smtp" THEN [codes EXCEPT ![email] = NoRecord]
                         ELSE add_verification_code(codes, email, value,
                                verification_code_expiration_seconds, clock)
             /\ last' = [Response(op, res, email, code, 0,
                                  NoToken, NoToken, NoToken)
                         EXCEPT !.data = signup_data,
                                !.replaced = /\ op = "signup"
                                             /\ OtherRecord(email, value)]

\* signup_data is NoSignup for signin; the response is True, the code goes
\* out by mail
auth_request(op, email, signup_data, code, f) ==
    LET res == auth_request_result(op, email, f)
        value == [verification_code |-> code, signup_data |-> signup_data]
    IN  IF res \in {"EmailAlreadyExists", "EmailNotFound"} \/ f = "code_set"
        THEN UNCHANGED <<codes, last>>
        ELSE /\ codes' = add_verification_code(codes, email, value,
                            verification_code_expiration_seconds, clock)
             /\ last' = [Response(op, res, email, code, 0,
                                  NoToken, NoToken, NoToken)
                         EXCEPT !.data = signup_data,
                                !.replaced = /\ op = "signup"
                                             /\ OtherRecord(email, value)]

Signup(email, first_name, code, f) ==
    /\ auth_request("signup", email,
                    [email |-> email, first_name |-> first_name], code, f)
    /\ AdapterCall(f)
    /\ UNCHANGED <<clock, users, sessions, blacklist, nextSid, issued,
                   signedOut, deleted, pend>>

Signin(email, code, f) ==
    /\ auth_request("signin", email, NoSignup, code, f)
    /\ AdapterCall(f)
    /\ UNCHANGED <<clock, users, sessions, blacklist, nextSid, issued,
                   signedOut, deleted, pend>>

\* the users table after the signup branch of verify_code
verify_code_users(data, f) ==
    IF data.signup_data # NoSignup
    THEN create_user(users, data.signup_data, f) ELSE users

\* the rows get_user_by_email may hand to __open_auth_session (0: None)
UserChoices(us, email) ==
    IF UsersByEmail(us, email) = {} THEN {0} ELSE UsersByEmail(us, email)

\* mutant: the submitted code is not compared with the stored one
verify_code_result_any_code(email, code, u, f) ==
    LET data == get_verification_code(email, f)
        us == verify_code_users(data, f)
    IN  IF data = NoRecord THEN "VerificationCodeIncorrect"
        ELSE IF u = 0 THEN "EmailNotFound"
        ELSE IF ~us[u].is_active THEN "EmailNotFound"
        ELSE "ok"

\* mutant: is_active is not looked at
verify_code_result_inactive_allowed(email, code, u, f) ==
    LET data == get_verification_code(email, f)
    IN  IF data = NoRecord THEN "VerificationCodeIncorrect"
        ELSE IF data.verification_code # code THEN "VerificationCodeIncorrect"
        ELSE IF u = 0 THEN "EmailNotFound"
        ELSE "ok"

\* AuthService.verify_code with __open_auth_session: "ok" (a token pair) or
\* what is raised, when get_user_by_email returns row u.
\* UserService.create_user answers a bool, so "user_created is None" is
\* never true and UserNotCreatedException is not raised.
verify_code_result(email, code, u, f) ==
    LET data == get_verification_code(email, f)
        us == verify_code_users(data, f)
    IN  IF data = NoRecord THEN "VerificationCodeIncorrect"
        ELSE IF data.verification_code # code THEN "VerificationCodeIncorrect"
        ELSE IF u = 0 THEN "EmailNotFound"
        ELSE IF ~us[u].is_active THEN "EmailNotFound"
        ELSE "ok"

\* The session id is counted as drawn when it is put into a token.
verify_code(email, code, u, f) ==
    LET data == get_verification_code(email, f)
        us == verify_code_users(data, f)
        res == verify_code_result(email, code, u, f)
        session_id == nextSid + 1
        payload == [sub |-> u, jid |-> session_id, role |-> us[u].role,
                    is_refresh |-> FALSE]
        token_pair == generate_auth_token_pair(payload, clock)
    IN  IF res = "VerificationCodeIncorrect"
        THEN UNCHANGED <<users, sessions, codes, nextSid, issued, last>>
        ELSE IF res = "EmailNotFound"
        THEN /\ users' = us
             /\ last' = IF us = users THEN last
                        ELSE Response("verify_code", res, email, code, 0,
                                      NoToken, NoToken, NoToken)
             /\ UNCHANGED <<sessions, codes, nextSid, issued>>
        ELSE /\ session_id \in SessionIds
             /\ users' = us
             /\ nextSid' = session_id
             /\ sessions' = create_session(sessions, u, session_id,
                                token_pair.refresh_token,
                                clock + refresh_token_expire_minutes, f)
             /\ codes' = delete_verification_code(codes, email, f)
             /\ issued' = issued \cup {token_pair.access_token,
                                       token_pair.refresh_token}
             /\ last' = [Response("verify_code", "ok", email, code,
                                  session_id, NoToken,
                                  token_pair.access_token,
                                  token_pair.refresh_token)
                         EXCEPT !.branch = IF data.signup_data # NoSignup
                                           THEN "signup" ELSE "signin"]

\* mutant: a wrong code uses up the record
VerifyCode_consuming(email, code, f) ==
    LET data == get_verification_code(email, f)
    IN  IF data # NoRecord /\ data.verification_code # code
        THEN /\ codes' = delete_verification_code(codes, email, f)
             /\ AdapterCall(f)
             /\ UNCHANGED <<clock, users, sessions, blacklist, nextSid, issued,
                            signedOut, deleted, pend, last>>
        ELSE /\ \E u \in UserChoices(verify_code_users(data, f), email) :
                    verify_code(email, code, u, f)
             /\ AdapterCall(f)
             /\ UNCHANGED <<clock, blacklist, signedOut, deleted, pend>>

VerifyCode(email, code, f) ==
    /\ \E u \in UserChoices(verify_code_users(get_verification_code(email, f), f),
                            email) :
            verify_code(email, code, u, f)
    /\ AdapterCall(f)
    /\ UNCHANGED <<clock, blacklist, signedOut, deleted, pend>>

\* ------------------------------------------------------------- Session Lifecycle Engine
\* mutant: the denylist is not consulted
validate_token_no_black_list(token, is_refresh, f) ==
    LET d == get_payload_from_token(token, clock)
    IN  IF d.err # "ok" THEN d.err
        ELSE IF d.payload.is_refresh # is_refresh THEN "InvalidToken"
        ELSE "ok"

\* mutant: the class of the token is not compared with the expected one
validate_token_any_class(token, is_refresh, f) ==
    LET d == get_payload_from_token(token, clock)
    IN  IF d.err # "ok" THEN d.err
        ELSE IF session_in_black_list(d.payload.jid, f) THEN "InvalidToken"
        ELSE "ok"

\* AuthService.validate_token: "ok" (the payload) or what is raised
\* mutant: the user of the token is looked up and has to be active
validate_token_active_user(token, is_refresh, f) ==
    LET d == get_payload_from_token(token, clock)
    IN  IF d.err # "ok" THEN d.err
        ELSE IF d.payload.is_refresh # is_refresh THEN "InvalidToken"
        ELSE IF session_in_black_list(d.payload.jid, f) THEN "InvalidToken"
        ELSE IF get_user_by_id(users, d.payload.sub) = NoUser THEN "InvalidToken"
        ELSE IF ~users[d.payload.sub].is_active THEN "InvalidToken"
        ELSE "ok"

validate_token(token, is_refresh, f) ==
    LET d == get_payload_from_token(token, clock)
    IN  IF d.err # "ok" THEN d.err
        ELSE IF d.payload.is_refresh # is_refresh THEN "InvalidToken"
        ELSE IF session_in_black_list(d.payload.jid, f) THEN "InvalidToken"
        ELSE "ok"

\* mutant: a token found on the denylist has its entry set anew
Validate_touching(token, f) ==
    /\ validate_token(token, FALSE, f) \in
            {"ok", "InvalidToken", "TokenExpired"}
    /\ blacklist' =
            IF /\ get_payload_from_token(token, clock).err = "ok"
               /\ session_in_black_list(token.jid, f)
            THEN add_session_in_black_list(blacklist, token.jid,
                        access_token_expire_minutes + 1, clock)
            ELSE blacklist
    /\ AdapterCall(f)
    /\ UNCHANGED <<clock, users, sessions, codes, nextSid, issued,
                   signedOut, deleted, pend, last>>

\* a pure read path
Validate(token, f) ==
    /\ validate_token(token, FALSE, f) \in
            {"ok", "InvalidToken", "TokenExpired"}
    /\ AdapterCall(f)
    /\ UNCHANGED <<clock, users, sessions, codes, blacklist, nextSid, issued,
                   signedOut, deleted, pend, last>>

\* mutant: the presented token is not compared with the stored one
refresh_token_check_no_compare(token, f) ==
    LET v == validate_token(token, TRUE, f)
    IN  IF v # "ok" THEN v
        ELSE IF get_user_by_id(users, token.sub) = NoUser THEN "error"
        ELSE IF ~users[token.sub].is_active THEN "InvalidToken"
        ELSE IF token.jid \notin DOMAIN sessions THEN "InvalidToken"
        ELSE "ok"

\* AuthService.refresh_token up to the comparison with the stored token:
\* "ok" or what is raised ("error": user is None, so user.is_active raises
\* AttributeError)
refresh_token_check(token, f) ==
    LET v == validate_token(token, TRUE, f)
    IN  IF v # "ok" THEN v
        ELSE IF get_user_by_id(users, token.sub) = NoUser THEN "error"
        ELSE IF ~users[token.sub].is_active THEN "InvalidToken"
        ELSE IF token.jid \notin DOMAIN sessions THEN "InvalidToken"
        ELSE IF token # sessions[token.jid].refresh_token THEN "InvalidToken"
        ELSE "ok"

\* AuthService.refresh_token: payload.role = user.role, then the new pair
refresh_token_pair(token) ==
    generate_auth_token_pair([sub |-> token.sub, jid |-> token.jid,
                              role |-> users[token.sub].role,
                              is_refresh |-> TRUE], clock)

\* mutant: the row is written only while it still holds the presented token
RefreshReturn_first_write_wins(token, pair, now, f) ==
    /\ sessions' = IF /\ token.jid \in DOMAIN sessions
                      /\ sessions[token.jid].refresh_token = token
                   THEN update_session(sessions, token.jid, pair.refresh_token,
                                       now + refresh_token_expire_minutes, f)
                   ELSE sessions
    /\ issued' = issued \cup {pair.access_token, pair.refresh_token}
    /\ last' = Response("refresh_token", "ok", "", "", token.jid, token,
                        pair.access_token, pair.refresh_token)

\* the tail of AuthService.refresh_token: update_session, return token_pair;
\* now is when the arguments of update_session were evaluated
RefreshReturn(token, pair, now, f) ==
    /\ sessions' = update_session(sessions, token.jid, pair.refresh_token,
                                  now + refresh_token_expire_minutes, f)
    /\ issued' = issued \cup {pair.access_token, pair.refresh_token}
    /\ last' = Response("refresh_token", "ok", "", "", token.jid, token,
                        pair.access_token, pair.refresh_token)

\* mutant: a refresh token that is not the stored one revokes the session
Refresh_revoking(token, f) ==
    /\ IF refresh_token_check(token, f) = "ok"
       THEN /\ RefreshReturn(token, refresh_token_pair(token), clock, f)
            /\ UNCHANGED <<blacklist, deleted>>
       ELSE IF /\ validate_token(token, TRUE, f) = "ok"
               /\ token.jid \in DOMAIN sessions
               /\ token # sessions[token.jid].refresh_token
       THEN /\ sessions' = delete_session(sessions, token.jid)
            /\ deleted' = deleted \cup {token.jid}
            /\ blacklist' = add_session_in_black_list(blacklist, token.jid,
                                access_token_expire_minutes, clock)
            /\ UNCHANGED <<issued, last>>
       ELSE UNCHANGED <<sessions, issued, last, blacklist, deleted>>
    /\ AdapterCall(f)
    /\ UNCHANGED <<clock, users, codes, nextSid, signedOut, pend>>

Refresh(token, f) ==
    /\ IF refresh_token_check(token, f) # "ok"
       THEN UNCHANGED <<sessions, issued, last>>
       ELSE RefreshReturn(token, refresh_token_pair(token), clock, f)
    /\ AdapterCall(f)
    /\ UNCHANGED <<clock, users, codes, blacklist, nextSid, signedOut,
                   deleted, pend>>

\* mutant: the answer is that of delete_session alone
signout_result_row_only(session_id, f) ==
    IF session_id \notin DOMAIN sessions THEN "False"
    ELSE IF f = "session_delete" THEN "False"
    ELSE "True"

\* AuthService.signout with SessionService.delete_session: what it answers.
\* f = "session_delete": the DELETE fails, delete_session answers False;
\* f = "blacklist_set": the Redis SET fails, add_session_in_black_list
\* answers False.
signout_result(session_id, f) ==
    IF session_id \notin DOMAIN sessions THEN "False"
    ELSE IF f \in {"session_delete", "blacklist_set"} THEN "False"
    ELSE "True"

\* mutant: the answer of delete_session is not looked at
Signout_unconditional(session_id, f) ==
    /\ sessions' = delete_session(sessions, session_id)
    /\ deleted' = deleted \cup {session_id}
    /\ blacklist' = add_session_in_black_list(blacklist, session_id,
                            access_token_expire_minutes, clock)
    /\ signedOut' = signedOut \cup {session_id}
    /\ last' = Response("signout", "True", "", "", session_id,
                        NoToken, NoToken, NoToken)
    /\ AdapterCall(f)
    /\ UNCHANGED <<clock, users, codes, nextSid, issued, pend>>

Signout(session_id, f) ==
    /\ IF session_id \notin DOMAIN sessions \/ f = "session_delete"
       THEN UNCHANGED <<sessions, blacklist, signedOut, deleted, last>>
       ELSE /\ sessions' = delete_session(sessions, session_id)
            /\ deleted' = deleted \cup {session_id}
            /\ last' = Response("signout", signout_result(session_id, f),
                                "", "", session_id, NoToken, NoToken, NoToken)
            /\ IF f = "blacklist_set"
               THEN UNCHANGED <<blacklist, signedOut>>
               ELSE /\ blacklist' = add_session_in_black_list(blacklist,
                            session_id, access_token_expire_minutes, clock)
                    /\ signedOut' = signedOut \cup {session_id}
    /\ AdapterCall(f)
    /\ UNCHANGED <<clock, users, codes, nextSid, issued, pend>>

\* ------------------------------------------------------------- environment
\* Redis drops a key EX seconds after it was set.
Expire(now) ==
    /\ codes' = [e \in Emails |->
                    IF codes[e] # NoRecord /\ codes[e].exp <= now
                    THEN NoRecord ELSE codes[e]]
    /\ blacklist' = [s \in {x \in DOMAIN blacklist : blacklist[x] > now} |->
                        blacklist[s]]

Tick ==
    /\ clock < MaxClock
    /\ clock' = clock + 1
    /\ Expire(clock + 1)
    /\ last' = Response("tick", "", "", "", 0, NoToken, NoToken, NoToken)
    /\ UNCHANGED <<users, sessions, nextSid, issued, signedOut,
                   deleted, pend, faults>>

\* ------------------------------------------------------------- specification
\* The users table the service starts with: one user registered earlier,
\* active or deactivated; b@x.com is free.
InitialUsers ==
    {<<[email |-> "a@x.com", first_name |-> "Ann", role |-> "Admin",
        is_active |-> a]>> : a \in BOOLEAN}

Init ==
    /\ clock = 0
    /\ users \in InitialUsers
    /\ sessions = << >>
    /\ codes = [e \in Emails |-> NoRecord]
    /\ blacklist = << >>
    /\ nextSid = 0
    /\ issued = {}
    /\ signedOut = {}
    /\ deleted = {}
    /\ pend = [p \in Slots |-> Idle]
    /\ faults = 0
    /\ last = Response("init", "", "", "", 0, NoToken, NoToken, NoToken)

\* every handler runs to completion; the stores and the mail server answer
Next ==
    \/ \E e \in Emails, n \in Names, c \in Codes : Signup(e, n, c, NoFault)
    \/ \E e \in Emails, c \in Codes : Signin(e, c, NoFault)
    \/ \E e \in Emails, c \in Codes : VerifyCode(e, c, NoFault)
    \/ \E t \in Presentable \cup Forged : Validate(t, NoFault)
    \/ \E t \in Presentable \cup Forged : Refresh(t, NoFault)
    \/ \E s \in SessionIds : Signout(s, NoFault)
    \/ Tick

Spec == Init /\ [][Next]_vars

\* as Next, with signups that differ in the signup data
NamesNext ==
    \/ \E e \in Emails, n \in MoreNames, c \in Codes : Signup(e, n, c, NoFault)
    \/ \E e \in Emails, c \in Codes : Signin(e, c, NoFault)
    \/ \E e \in Emails, c \in Codes : VerifyCode(e, c, NoFault)
    \/ \E t \in Presentable \cup Forged : Validate(t, NoFault)
    \/ \E t \in Presentable \cup Forged : Refresh(t, NoFault)
    \/ \E s \in SessionIds : Signout(s, NoFault)
    \/ Tick

SpecNames == Init /\ [][NamesNext]_vars

\* ------------------------------------------------------------- adapter failures
\* as Next, and one adapter call of a request may fail
FaultNext ==
    \/ \E e \in Emails, n \in Names, c \in Codes,
          f \in {NoFault, "code_set", "smtp"} : Signup(e, n, c, f)
    \/ \E e \in Emails, c \in Codes,
          f \in {NoFault, "code_set", "smtp"} : Signin(e, c, f)
    \/ \E e \in Emails, c \in Codes,
          f \in {NoFault, "code_get", "user_insert", "session_insert",
                 "code_delete"} : VerifyCode(e, c, f)
    \/ \E t \in Presentable \cup Forged, f \in {NoFault, "blacklist_get"} :
            Validate(t, f)
    \/ \E t \in Presentable \cup Forged,
          f \in {NoFault, "blacklist_get", "session_update"} : Refresh(t, f)
    \/ \E s \in SessionIds,
          f \in {NoFault, "session_delete", "blacklist_set"} : Signout(s, f)
    \/ Tick

SpecFault == Init /\ [][FaultNext]_vars

\* ------------------------------------------------------------- requests in flight
\* refresh_token and signout suspended at their last await, so that other
\* requests run in between.
Pending == Response("pending", "", "", "", 0, NoToken, NoToken, NoToken)

\* refresh_token through line 255: validate_token, the user and session
\* reads, the comparison, and the new pair, which is minted (and the
\* arguments of update_session evaluated) before update_session is awaited
RefreshBegin(p, token) ==
    /\ pend[p] = Idle
    /\ IF refresh_token_check(token, NoFault) # "ok"
       THEN UNCHANGED <<pend, last>>
       ELSE LET pair == refresh_token_pair(token)
            IN  /\ pend' = [pend EXCEPT ![p] =
                        [kind |-> "refresh", tok |-> token,
                         access |-> pair.access_token,
                         refresh |-> pair.refresh_token,
                         sid |-> token.jid, at |-> clock]]
                /\ last' = last
    /\ UNCHANGED <<clock, users, sessions, codes, blacklist, nextSid, issued,
                   signedOut, deleted, faults>>

\* update_session commits (or finds the row gone) and the pair is returned
RefreshCommit(p) ==
    /\ pend[p].kind = "refresh"
    /\ RefreshReturn(pend[p].tok,
                     [access_token |-> pend[p].access,
                      refresh_token |-> pend[p].refresh],
                     pend[p].at, NoFault)
    /\ pend' = [pend EXCEPT ![p] = Idle]
    /\ UNCHANGED <<clock, users, codes, blacklist, nextSid, signedOut,
                   deleted, faults>>

\* signout through delete_session
SignoutBegin(p, session_id) ==
    /\ pend[p] = Idle
    /\ IF session_id \notin DOMAIN sessions
       THEN UNCHANGED <<sessions, deleted, pend, last>>
       ELSE /\ sessions' = delete_session(sessions, session_id)
            /\ deleted' = deleted \cup {session_id}
            /\ pend' = [pend EXCEPT ![p] =
                    [kind |-> "signout", tok |-> NoToken, access |-> NoToken,
                     refresh |-> NoToken, sid |-> session_id, at |-> clock]]
            /\ last' = Pending
    /\ UNCHANGED <<clock, users, codes, blacklist, nextSid, issued, signedOut,
                   faults>>

\* add_session_in_black_list and the answer of signout
SignoutCommit(p) ==
    /\ pend[p].kind = "signout"
    /\ blacklist' = add_session_in_black_list(blacklist, pend[p].sid,
                        access_token_expire_minutes, clock)
    /\ signedOut' = signedOut \cup {pend[p].sid}
    /\ last' = Response("signout", "True", "", "", pend[p].sid,
                        NoToken, NoToken, NoToken)
    /\ pend' = [pend EXCEPT ![p] = Idle]
    /\ UNCHANGED <<clock, users, sessions, codes, nextSid, issued, deleted,
                   faults>>

\* as Next, and a refresh_token or a signout may be suspended meanwhile
RaceNext ==
    \/ \E e \in Emails, n \in Names, c \in Codes : Signup(e, n, c, NoFault)
    \/ \E e \in Emails, c \in Codes : Signin(e, c, NoFault)
    \/ \E e \in Emails, c \in Codes : VerifyCode(e, c, NoFault)
    \/ \E t \in Presentable \cup Forged : Validate(t, NoFault)
    \/ \E t \in Presentable \cup Forged : Refresh(t, NoFault)
    \/ \E s \in SessionIds : Signout(s, NoFault)
    \/ \E p \in Slots, t \in Presentable \cup Forged : RefreshBegin(p, t)
    \/ \E p \in Slots : RefreshCommit(p)
    \/ \E p \in Slots, s \in SessionIds : SignoutBegin(p, s)
    \/ \E p \in Slots : SignoutCommit(p)
    \/ Tick

SpecRace == Init /\ [][RaceNext]_vars

\* ------------------------------------------------------------- verify_code in flight
\* verify_code through line 174: the record is read and the submitted code
\* compared; the call is then suspended, holding the record it read
VerifyBegin(p, email, code) ==
    /\ pend[p] = Idle
    /\ LET data == get_verification_code(email, NoFault)
       IN  IF data = NoRecord \/ data.verification_code # code
           THEN UNCHANGED pend
           ELSE pend' = [pend EXCEPT ![p] =
                    [kind |-> "verify", email |-> email, code |-> code,
                     data |-> data, at |-> clock]]
    /\ UNCHANGED <<clock, users, sessions, codes, blacklist, nextSid, issued,
                   signedOut, deleted, faults, last>>

\* what the resumed call answers when get_user_by_email returns row u of
\* the table us it sees
verify_code_resumed_result(us, u) ==
    IF u = 0 THEN "EmailNotFound"
    ELSE IF ~us[u].is_active THEN "EmailNotFound"
    ELSE "ok"

\* verify_code from line 176 on, with the record read before: the user is
\* created, the session opened, the record deleted, the pair returned
verify_code_resumed(p, u) ==
    LET email == pend[p].email
        data == pend[p].data
        us == IF data.signup_data # NoSignup
              THEN create_user(users, data.signup_data, NoFault) ELSE users
        session_id == nextSid + 1
        payload == [sub |-> u, jid |-> session_id, role |-> us[u].role,
                    is_refresh |-> FALSE]
        token_pair == generate_auth_token_pair(payload, clock)
    IN  /\ users' = us
        /\ IF verify_code_resumed_result(us, u) # "ok"
           THEN /\ last' = Response("verify_code", "EmailNotFound", email,
                                    pend[p].code, 0, NoToken, NoToken, NoToken)
                /\ UNCHANGED <<sessions, codes, nextSid, issued>>
           ELSE /\ session_id \in SessionIds
                /\ nextSid' = session_id
                /\ sessions' = create_session(sessions, u, session_id,
                                    token_pair.refresh_token,
                                    clock + refresh_token_expire_minutes,
                                    NoFault)
                /\ codes' = delete_verification_code(codes, email, NoFault)
                /\ issued' = issued \cup {token_pair.access_token,
                                          token_pair.refresh_token}
                /\ last' = [Response("verify_code", "ok", email, pend[p].code,
                                     session_id, NoToken,
                                     token_pair.access_token,
                                     token_pair.refresh_token)
                            EXCEPT !.branch = IF data.signup_data # NoSignup
                                              THEN "signup" ELSE "signin"]

VerifyCommit(p) ==
    /\ pend[p].kind = "verify"
    /\ \E u \in UserChoices(IF pend[p].data.signup_data # NoSignup
                            THEN create_user(users, pend[p].data.signup_data,
                                             NoFault)
                            ELSE users, pend[p].email) :
            verify_code_resumed(p, u)
    /\ pend' = [pend EXCEPT ![p] = Idle]
    /\ UNCHANGED <<clock, blacklist, signedOut, deleted, faults>>

\* signup, signin and verify_code, and a verify_code may be suspended
\* between reading the record and using it
VerifyNext ==
    \/ \E e \in Emails, n \in Names, c \in Codes : Signup(e, n, c, NoFault)
    \/ \E e \in Emails, c \in Codes : Signin(e, c, NoFault)
    \/ \E e \in Emails, c \in Codes : VerifyCode(e, c, NoFault)
    \/ \E p \in Slots, e \in Emails, c \in Codes : VerifyBegin(p, e, c)
    \/ \E p \in Slots : VerifyCommit(p)
    \/ Tick

SpecVerify == Init /\ [][VerifyNext]_vars

\* ------------------------------------------------------------- users table maintenance
\* The service itself never writes is_active and never deletes a user; both
\* are done on the table from outside.
Maintenance == Response("maintenance", "", "", "", 0, NoToken, NoToken, NoToken)

\* is_active set to false
Deactivate(u) ==
    /\ users[u] # NoUser /\ users[u].is_active
    /\ users' = [users EXCEPT ![u].is_active = FALSE]
    /\ last' = Maintenance
    /\ UNCHANGED <<clock, sessions, codes, blacklist, nextSid, issued,
                   signedOut, deleted, pend, faults>>

\* the row deleted; sessions.user_id references users.id, so a user that
\* has session rows cannot be deleted
RemoveUser(u) ==
    /\ users[u] # NoUser
    /\ \A s \in DOMAIN sessions : sessions[s].user_id # u
    /\ users' = [users EXCEPT ![u] = NoUser]
    /\ last' = Maintenance
    /\ UNCHANGED <<clock, sessions, codes, blacklist, nextSid, issued,
                   signedOut, deleted, pend, faults>>

\* as Next, and the users table is maintained meanwhile
AdminNext ==
    \/ \E e \in Emails, n \in Names, c \in Codes : Signup(e, n, c, NoFault)
    \/ \E e \in Emails, c \in Codes : Signin(e, c, NoFault)
    \/ \E e \in Emails, c \in Codes : VerifyCode(e, c, NoFault)
    \/ \E t \in Presentable \cup Forged : Validate(t, NoFault)
    \/ \E t \in Presentable \cup Forged : Refresh(t, NoFault)
    \/ \E s \in SessionIds : Signout(s, NoFault)
    \/ \E u \in DOMAIN users : Deactivate(u)
    \/ \E u \in DOMAIN users : RemoveUser(u)
    \/ Tick

SpecAdmin == Init /\ [][AdminNext]_vars

\* ------------------------------------------------------------- JWTHandler on its own
\* datetime.now() has a finer resolution than the timestamps of a token:
\* an instant counts SubTicks to the tick.
MaxInstant == (MaxClock + 1) * SubTicks - 1

\* the payloads PayloadSchema.model_dump() gives
Payloads == [sub : {1}, jid : {1}, role : {"User", "Admin"},
             is_refresh : BOOLEAN]

\* expire_token: an int (minutes, one tick each here) or a timedelta
ExpireTokens ==
    {[type |-> "int", value |-> n] : n \in 0..MaxTtl}
        \cup {[type |-> "timedelta", value |-> d] : d \in 0..(MaxTtl * SubTicks)}

\* the timedelta added to now in JWTHandler.encode, in instants
expire_delta(expire_token) ==
    IF expire_token.type = "int" THEN expire_token.value * SubTicks
    ELSE expire_token.value

\* jwt.encode writes a datetime claim as timegm(utctimetuple()): the whole
\* seconds, the fraction dropped
timegm(instant) == instant \div SubTicks

\* mutant: an int expire_token is taken as a timedelta of that many instants
jwt_encode_int_unscaled(payload, expire_token, now) ==
    [sub |-> payload.sub, jid |-> payload.jid, role |-> payload.role,
     is_refresh |-> payload.is_refresh,
     iat |-> timegm(now), exp |-> timegm(now + expire_token.value),
     sig |-> PrivateKey]

\* mutant: every token after the first gets a jti, which changes what is
\* signed
jwt_encode_jti(payload, expire_token, now) ==
    [sub |-> payload.sub, jid |-> payload.jid, role |-> payload.role,
     is_refresh |-> payload.is_refresh,
     iat |-> timegm(now),
     exp |-> timegm(now + expire_delta(expire_token)),
     sig |-> IF issued = {} THEN PrivateKey ELSE "jwt-private/jti"]

\* JWTHandler.encode at the instant now: the payload, exp = now + the
\* timedelta and iat = now, both written as whole ticks, signed; no nonce.
jwt_encode(payload, expire_token, now) ==
    [sub |-> payload.sub, jid |-> payload.jid, role |-> payload.role,
     is_refresh |-> payload.is_refresh,
     iat |-> timegm(now),
     exp |-> timegm(now + expire_delta(expire_token)),
     sig |-> PrivateKey]

NoClaims == [sub |-> 0, jid |-> 0, role |-> "", is_refresh |-> FALSE,
             iat |-> 0, exp |-> 0]

\* mutant: a token is expired only after its exp
decode_expired_after(token, now) ==
    IF token = NoToken THEN [err |-> "DecodeError", claims |-> NoClaims]
    ELSE IF token.sig # PrivateKey
    THEN [err |-> "InvalidSignatureError", claims |-> NoClaims]
    ELSE IF token.exp * SubTicks < now
    THEN [err |-> "ExpiredSignatureError", claims |-> NoClaims]
    ELSE [err |-> "ok",
          claims |-> [sub |-> token.sub, jid |-> token.jid,
                      role |-> token.role, is_refresh |-> token.is_refresh,
                      iat |-> token.iat, exp |-> token.exp]]

\* JWTHandler.decode at the instant now: jwt.decode parses the string,
\* verifies the signature, then exp (expired when exp <= now), and returns
\* the claims, iat and exp included.
decode(token, now) ==
    IF token = NoToken THEN [err |-> "DecodeError", claims |-> NoClaims]
    ELSE IF token.sig # PrivateKey
    THEN [err |-> "InvalidSignatureError", claims |-> NoClaims]
    ELSE IF token.exp * SubTicks <= now
    THEN [err |-> "ExpiredSignatureError", claims |-> NoClaims]
    ELSE [err |-> "ok",
          claims |-> [sub |-> token.sub, jid |-> token.jid,
                      role |-> token.role, is_refresh |-> token.is_refresh,
                      iat |-> token.iat, exp |-> token.exp]]

\* what last holds besides the inputs and the instant: the token encoded
\* last (at) and the one before (prev), and the last decode (arg, out)
NoCalls == [token |-> NoToken, at |-> 0,
            prev |-> [token |-> NoToken, at |-> 0],
            arg |-> NoToken, out |-> [err |-> "", claims |-> NoClaims]]

\* A payload and an expire_token are drawn.
CodecInit ==
    /\ clock = 0
    /\ users = << >>
    /\ sessions = << >>
    /\ codes = [e \in Emails |-> NoRecord]
    /\ blacklist = << >>
    /\ nextSid = 0
    /\ issued = {}
    /\ signedOut = {}
    /\ deleted = {}
    /\ pend = [p \in Slots |-> Idle]
    /\ faults = 0
    /\ \E payload \in Payloads, expire_token \in ExpireTokens,
          now \in 0..(SubTicks - 1) :
            last = [op |-> "input", payload |-> payload,
                    expire_token |-> expire_token, now |-> now] @@ NoCalls

Encode ==
    LET token == jwt_encode(last.payload, last.expire_token, last.now)
    IN  /\ issued' = issued \cup {token}
        /\ last' = [last EXCEPT !.op = "encode", !.token = token,
                                !.at = last.now,
                                !.prev = [token |-> last.token,
                                          at |-> last.at]]
        /\ UNCHANGED <<clock, users, sessions, codes, blacklist, nextSid,
                       signedOut, deleted, pend, faults>>

Decode(token) ==
    /\ last' = [last EXCEPT !.op = "decode", !.arg = token,
                            !.out = decode(token, last.now)]
    /\ UNCHANGED <<clock, users, sessions, codes, blacklist, nextSid, issued,
                   signedOut, deleted, pend, faults>>

\* time passes, one instant; the calls made so far are over
Advance ==
    /\ last.now < MaxInstant
    /\ last' = [op |-> "advance", payload |-> last.payload,
                expire_token |-> last.expire_token,
                now |-> last.now + 1] @@ NoCalls
    /\ clock' = timegm(last.now + 1)
    /\ UNCHANGED <<users, sessions, codes, blacklist, nextSid, issued,
                   signedOut, deleted, pend, faults>>

CodecNext ==
    \/ Encode
    \/ \E t \in Presentable \cup Forged : Decode(t)
    \/ Advance

SpecCodec == CodecInit /\ [][CodecNext]_vars

\* ------------------------------------------------------------- error taxonomy
Taxonomy == {"EmailAlreadyExists", "VerificationCodeIncorrect", "InvalidToken",
             "TokenExpired", "EmailNotFound", "UserNotCreated",
             "ExceedingNumberOfRequests"}

\* a class attribute that keeps the None of APIException
None == "None"

\* api_v1/exceptions.py: status_code and detail as an instance of each
\* class has them.  UserNotCreatedException assigns "status", so its
\* status_code is the one inherited from APIException.
APIException(kind) ==
    CASE kind = "EmailAlreadyExists" ->
            [status_code |-> "HTTP_400_BAD_REQUEST",
             detail |-> "Email already exists."]
      [] kind = "VerificationCodeIncorrect" ->
            [status_code |-> "HTTP_400_BAD_REQUEST",
             detail |-> "Invalid confirmation code"]
      [] kind = "InvalidToken" ->
            [status_code |-> "HTTP_401_UNAUTHORIZED",
             detail |-> "Invalid token error"]
      [] kind = "TokenExpired" ->
            [status_code |-> "HTTP_403_FORBIDDEN",
             detail |-> "Token has expired"]
      [] kind = "EmailNotFound" ->
            [status_code |-> "HTTP_404_NOT_FOUND",
             detail |-> "Email not found"]
      [] kind = "UserNotCreated" ->
            [status_code |-> None, detail |-> "User not created"]
      [] kind = "ExceedingNumberOfRequests" ->
            [status_code |-> "HTTP_429_TOO_MANY_REQUESTS",
             detail |-> "Exceeded number of requests"]

\* main.py: the JSONResponse built for an APIException
http_exception_handler(kind) ==
    [status_code |-> APIException(kind).status_code,
     content |-> [detail |-> APIException(kind).detail]]

\* ------------------------------------------------------------- properties
\* C1 as stated: right after a successful refresh_token(R) in session S,
\* presenting R again fails with InvalidToken and presenting the returned
\* refresh token succeeds, whatever the time between the mint of R and the
\* refresh.
C1_RotationAtAnyInterval ==
    (last.op = "refresh_token" /\ last.res = "ok") =>
        /\ refresh_token_check(last.tok, NoFault) = "InvalidToken"
        /\ refresh_token_check(last.refresh, NoFault) = "ok"

\* C1: right after a successful refresh_token(R) the returned refresh token
\* is the one the session accepts; the returned token equals R exactly when
\* R was minted in the current clock second, and when it differs from R,
\* presenting R again fails with InvalidToken.
C1_Rotation ==
    (last.op = "refresh_token" /\ last.res = "ok") =>
        /\ refresh_token_check(last.refresh, NoFault) = "ok"
        /\ (last.refresh = last.tok) <=> (last.tok.iat = clock)
        /\ last.refresh # last.tok =>
                refresh_token_check(last.tok, NoFault) = "InvalidToken"

C1_Witness ==
    /\ last.op = "refresh_token" /\ last.res = "ok"
    /\ last.refresh # last.tok
    /\ last.tok.exp > clock
    /\ refresh_token_check(last.tok, NoFault) = "InvalidToken"
    /\ refresh_token_check(last.refresh, NoFault) = "ok"

\* C2: for every session id at most one refresh token is accepted by
\* refresh_token, and every correctly signed, unexpired refresh-class token
\* of the session that is not the refresh_token stored in the session's row
\* is rejected with InvalidToken.
C2_OneRefreshTokenPerSession ==
    \A s \in SessionIds :
        /\ Cardinality({t \in Presentable :
                /\ t.jid = s
                /\ refresh_token_check(t, NoFault) = "ok"}) <= 1
        /\ \A t \in Presentable :
                ( /\ t.jid = s /\ t.is_refresh /\ t.exp > clock
                  /\ (s \in DOMAIN sessions => t # sessions[s].refresh_token) )
                => refresh_token_check(t, NoFault) = "InvalidToken"

C2_Witness ==
    \E s \in DOMAIN sessions : \E t \in Presentable :
        /\ t.jid = s /\ t.is_refresh /\ t.exp > clock
        /\ t # sessions[s].refresh_token
        /\ refresh_token_check(t, NoFault) = "InvalidToken"
        /\ sessions[s].refresh_token \in Presentable
        /\ refresh_token_check(sessions[s].refresh_token, NoFault) = "ok"

\* C3: an unexpired access token is accepted by validate_token as long as
\* signout has not returned True for its session, and is rejected with
\* InvalidToken once it has.
C3_SignoutRevokesAccessTokens ==
    \A t \in Presentable :
        (~t.is_refresh /\ t.exp > clock) =>
            validate_token(t, FALSE, NoFault) =
                IF t.jid \in signedOut THEN "InvalidToken" ELSE "ok"

C3_Witness ==
    /\ last.op = "signout" /\ last.res = "True"
    /\ \E t \in Presentable :
        /\ t.jid = last.sid /\ ~t.is_refresh /\ t.exp > clock
        /\ validate_token(t, FALSE, NoFault) = "InvalidToken"

C5_VerificationCodeIncorrect ==
    \A e \in Emails : \A c \in Codes : \A u \in UserChoices(users, e) \cup {0} :
        ( \/ codes[e] = NoRecord
          \/ codes[e].exp <= clock
          \/ codes[e].verification_code # c )
        => verify_code_result(e, c, u, NoFault) = "VerificationCodeIncorrect"

C5_Witness ==
    /\ last.op = "verify_code" /\ last.res = "ok"
    /\ codes[last.email] = NoRecord
    /\ \E e \in Emails : \E c \in Codes :
        /\ codes[e] # NoRecord /\ codes[e].exp > clock
        /\ codes[e].verification_code # c
        /\ \A u \in UserChoices(users, e) :
            verify_code_result(e, c, u, NoFault) = "VerificationCodeIncorrect"

C7_NoPathBackFromRevoked ==
    /\ \A s \in deleted : s \notin DOMAIN sessions
    /\ \A t \in Presentable :
            t.jid \in deleted => refresh_token_check(t, NoFault) # "ok"
    /\ (last.op = "refresh_token" /\ last.res = "ok") => last.sid \notin deleted

\* C8: once signout has returned True for a session, every access token of
\* that session, those of a refresh_token that interleaves with the signout
\* included, is expired or is rejected by validate_token, and the denylist
\* entry, while it exists, expires no earlier than the token.
C8_DenylistOutlivesAccessTokens ==
    \A t \in Presentable \cup {pend[p].access : p \in Slots} :
        (t # NoToken /\ ~t.is_refresh /\ t.jid \in signedOut) =>
            /\ t.exp <= clock
                \/ validate_token(t, FALSE, NoFault) = "InvalidToken"
            /\ t.jid \in DOMAIN blacklist => blacklist[t.jid] >= t.exp

C8_Witness ==
    /\ last.op = "refresh_token" /\ last.res = "ok"
    /\ last.sid \in signedOut
    /\ last.access.exp > clock
    /\ last.access \in Presentable
    /\ validate_token(last.access, FALSE, NoFault) = "InvalidToken"

C13_TokenClassSeparation ==
    \A t \in Presentable :
        t.exp > clock =>
            /\ t.is_refresh =>
                    validate_token(t, FALSE, NoFault) = "InvalidToken"
            /\ ~t.is_refresh =>
                    /\ validate_token(t, TRUE, NoFault) = "InvalidToken"
                    /\ refresh_token_check(t, NoFault) = "InvalidToken"
            /\ (t.jid \in DOMAIN blacklist /\ blacklist[t.jid] > clock) =>
                    \A b \in BOOLEAN :
                        validate_token(t, b, NoFault) = "InvalidToken"

C13_Witness ==
    \E t \in Presentable : \E a \in Presentable : \E d \in Presentable :
        /\ t.is_refresh /\ t.exp > clock /\ t.jid \notin DOMAIN blacklist
        /\ validate_token(t, FALSE, NoFault) = "InvalidToken"
        /\ validate_token(t, TRUE, NoFault) = "ok"
        /\ ~a.is_refresh /\ a.exp > clock /\ a.jid \notin DOMAIN blacklist
        /\ refresh_token_check(a, NoFault) = "InvalidToken"
        /\ validate_token(a, FALSE, NoFault) = "ok"
        /\ d.is_refresh /\ d.exp > clock /\ d.jid \in DOMAIN blacklist
        /\ validate_token(d, TRUE, NoFault) = "InvalidToken"

\* C14: a correctly signed token whose exp has passed gets TokenExpired
\* from validate_token (either class expected) and from refresh_token,
\* whatever the denylist, the users and the sessions hold; a token signed
\* with another key and a string that is not a token get InvalidToken.
C14_ExpiredVersusInvalid ==
    /\ \A t \in Presentable :
            t.exp <= clock =>
                /\ \A b \in BOOLEAN :
                        validate_token(t, b, NoFault) = "TokenExpired"
                /\ refresh_token_check(t, NoFault) = "TokenExpired"
    /\ \A t \in Forged :
            /\ \A b \in BOOLEAN : validate_token(t, b, NoFault) = "InvalidToken"
            /\ refresh_token_check(t, NoFault) = "InvalidToken"

C14_Witness ==
    /\ \E t \in Presentable :
        /\ ~t.is_refresh /\ t.exp <= clock
        /\ t.jid \in DOMAIN blacklist /\ blacklist[t.jid] > clock
        /\ validate_token(t, FALSE, NoFault) = "TokenExpired"
    /\ \E t \in Presentable :
        /\ t.is_refresh /\ t.exp <= clock
        /\ t.jid \in DOMAIN sessions /\ sessions[t.jid].refresh_token = t
        /\ refresh_token_check(t, NoFault) = "TokenExpired"
    /\ \E t \in Forged :
        /\ t.exp > clock
        /\ validate_token(t, FALSE, NoFault) = "InvalidToken"

\* C16: for a session signed out, a refresh token of it that is not yet
\* expired is rejected by refresh_token with InvalidToken also when the
\* denylist entry is gone, the session's row being missing.
C16_RefreshAfterDenylistExpiry ==
    \A t \in Presentable :
        ( /\ t.is_refresh /\ t.exp > clock
          /\ t.jid \in signedOut
          /\ ~session_in_black_list(t.jid, NoFault) )
        => /\ t.jid \notin DOMAIN sessions
           /\ validate_token(t, TRUE, NoFault) = "ok"
           /\ refresh_token_check(t, NoFault) = "InvalidToken"

C16_Witness ==
    \E t \in Presentable :
        /\ t.is_refresh /\ t.exp > clock
        /\ t.jid \in signedOut
        /\ t.jid \notin DOMAIN blacklist
        /\ t.jid \notin DOMAIN sessions
        /\ refresh_token_check(t, NoFault) = "InvalidToken"

\* C17: signout for a session id that has no row answers False, and no step
\* adds or renews the denylist entry of an id that has no row or changes
\* the session rows on behalf of such an id.
C17_SignoutWithoutRow ==
    /\ [](\A s \in SessionIds :
            s \notin DOMAIN sessions => signout_result(s, NoFault) = "False")
    /\ [][ /\ \A s \in SessionIds :
                s \notin DOMAIN sessions =>
                    /\ s \in DOMAIN blacklist' =>
                            /\ s \in DOMAIN blacklist
                            /\ blacklist'[s] = blacklist[s]
                    /\ signedOut' \ signedOut # {s}
           /\ (last'.op = "signout" /\ last' # last) =>
                    /\ last'.sid \in DOMAIN sessions
                    /\ sessions' = delete_session(sessions, last'.sid) ]_vars

C17_Witness ==
    \E s \in deleted :
        /\ s \notin DOMAIN sessions
        /\ s \notin DOMAIN blacklist
        /\ s + 1 \in DOMAIN sessions
        /\ signout_result(s, NoFault) = "False"

\* C18: signup for an email that has a user is answered EmailAlreadyExists,
\* whatever else would fail, and no step writes a signup record for, or
\* answers a signup of, an email that has a user.
C18_SignupKnownEmail ==
    /\ [](\A e \in Emails : \A f \in {NoFault, "code_set", "smtp"} :
            ~check_email_availability(e) =>
                auth_request_result("signup", e, f) = "EmailAlreadyExists")
    /\ [][ /\ \A e \in Emails :
                ~check_email_availability(e) =>
                    \/ codes'[e] = codes[e]
                    \/ codes'[e].signup_data = NoSignup
           /\ (last'.op = "signup" /\ last' # last) =>
                    check_email_availability(last'.email) ]_vars

C18_Witness ==
    \E e \in Emails :
        /\ ~check_email_availability(e)
        /\ codes[e] # NoRecord /\ codes[e].exp > clock
        /\ codes[e].signup_data = NoSignup
        /\ auth_request_result("signup", e, NoFault) = "EmailAlreadyExists"

\* C19: signin for an email that has no user is answered EmailNotFound,
\* whatever else would fail, and no step writes a signin record for, or
\* answers a signin of, an email that has no user.
C19_SigninUnknownEmail ==
    /\ [](\A e \in Emails : \A f \in {NoFault, "code_set", "smtp"} :
            check_email_availability(e) =>
                auth_request_result("signin", e, f) = "EmailNotFound")
    /\ [][ /\ \A e \in Emails :
                check_email_availability(e) =>
                    \/ codes'[e] = codes[e]
                    \/ codes'[e] = NoRecord
                    \/ codes'[e].signup_data # NoSignup
           /\ (last'.op = "signin" /\ last' # last) =>
                    ~check_email_availability(last'.email) ]_vars

C19_Witness ==
    \E e \in Emails :
        /\ check_email_availability(e)
        /\ codes[e] # NoRecord /\ codes[e].exp > clock
        /\ codes[e].signup_data # NoSignup
        /\ auth_request_result("signin", e, NoFault) = "EmailNotFound"

\* C12: verify_code with the stored code, for an email whose user row is
\* missing or has is_active false, is answered EmailNotFound, and no step
\* adds a session row or hands out a token for a user that is missing or
\* inactive.
C12_InactiveBlocksNewSession ==
    /\ [](\A e \in Emails :
            LET data == get_verification_code(e, NoFault)
                us == verify_code_users(data, NoFault)
            IN  data # NoRecord =>
                    \A u \in UserChoices(us, e) :
                        (u = 0 \/ ~us[u].is_active) =>
                            verify_code_result(e, data.verification_code, u,
                                               NoFault) = "EmailNotFound")
    /\ [][ /\ \A s \in DOMAIN sessions' \ DOMAIN sessions :
                /\ get_user_by_id(users, sessions'[s].user_id) # NoUser
                      => users[sessions'[s].user_id].is_active
                /\ users'[sessions'[s].user_id].is_active
           /\ \A t \in issued' \ issued :
                users'[t.sub].is_active ]_vars

C12_Witness ==
    \E e \in Emails : \E d \in Emails :
        /\ codes[e] # NoRecord /\ codes[e].exp > clock
        /\ codes[e].signup_data = NoSignup
        /\ UsersByEmail(users, e) = {}
        /\ verify_code_result(e, codes[e].verification_code, 0, NoFault)
                = "EmailNotFound"
        /\ codes[d] # NoRecord /\ codes[d].exp > clock
        /\ \E u \in UsersByEmail(users, d) :
            /\ ~users[u].is_active
            /\ verify_code_result(d, codes[d].verification_code, u, NoFault)
                    = "EmailNotFound"
            /\ \A s \in DOMAIN sessions : sessions[s].user_id # u

\* C15 as stated: refresh_token with an unexpired refresh token whose
\* session is not denylisted and whose subject user is missing or inactive
\* is answered InvalidToken.
C15_RefreshForMissingOrInactiveUser ==
    \A t \in Presentable :
        ( /\ t.is_refresh /\ t.exp > clock
          /\ ~session_in_black_list(t.jid, NoFault)
          /\ \/ get_user_by_id(users, t.sub) = NoUser
             \/ ~get_user_by_id(users, t.sub).is_active )
        => refresh_token_check(t, NoFault) = "InvalidToken"

\* C20: after a successful signup or signin request the record of the email
\* is the one that request wrote, whatever was stored before: only its code
\* verifies, every other code is answered VerificationCodeIncorrect, and a
\* verify_code that follows creates the user from the signup data of that
\* request.
C20_OneLiveRecordPerEmail ==
    /\ []((last.op \in {"signup", "signin"} /\ last.res = "ok") =>
            LET data == get_verification_code(last.email, NoFault)
                us == verify_code_users(data, NoFault)
            IN  /\ data.verification_code = last.code
                /\ data.signup_data = last.data
                /\ \A u \in UserChoices(us, last.email) :
                    /\ verify_code_result(last.email, last.code, u, NoFault)
                            = IF us[u].is_active THEN "ok" ELSE "EmailNotFound"
                    /\ \A c \in Codes \ {last.code} :
                            verify_code_result(last.email, c, u, NoFault)
                                = "VerificationCodeIncorrect")
    /\ [][ ( /\ last.op = "signup" /\ last.res = "ok"
             /\ last'.op = "verify_code" /\ last'.res = "ok"
             /\ last'.email = last.email ) =>
                /\ last'.code = last.code
                /\ last'.branch = "signup"
                /\ users'[last'.access.sub].email = last.data.email
                /\ users'[last'.access.sub].first_name = last.data.first_name
                /\ Len(users') = Len(users) + 1 ]_vars

C20_Witness ==
    /\ last.op = "signup" /\ last.res = "ok" /\ last.replaced
    /\ codes[last.email].verification_code = last.code
    /\ codes[last.email].signup_data = last.data
    /\ \A c \in Codes \ {last.code} :
            verify_code_result(last.email, c, Len(users) + 1, NoFault)
                = "VerificationCodeIncorrect"
    /\ verify_code_result(last.email, last.code, Len(users) + 1, NoFault) = "ok"

\* C21: when the Redis SET of the record fails or the notifier answers
\* False, signup and signin do not answer True: past the email check the
\* request ends in an error, and no step in which an adapter call failed
\* records a signup or signin that answered True.
C21_DeliveryFailurePropagated ==
    /\ [](\A op \in {"signup", "signin"} : \A e \in Emails :
            \A f \in {"code_set", "smtp"} :
                /\ auth_request_result(op, e, f) # "ok"
                /\ (check_email_availability(e) <=> op = "signup")
                        => auth_request_result(op, e, f) = "error")
    /\ [][ ( /\ faults' # faults /\ last' # last
             /\ last'.op \in {"signup", "signin"} ) =>
                last'.res = "error" ]_vars

C21_Witness ==
    /\ last.op \in {"signup", "signin"} /\ last.res = "error"
    /\ faults > 0
    /\ codes[last.email].verification_code = last.code
    /\ auth_request_result(last.op, last.email, "smtp") = "error"

\* C22 as stated: verify_code with the stored code of a record that carries
\* signup data, when the insert of the user row fails, is answered
\* UserNotCreated.
C22_UserNotCreatedOnInsertFailure ==
    \A e \in Emails :
        LET data == get_verification_code(e, "user_insert")
            us == verify_code_users(data, "user_insert")
        IN  (data # NoRecord /\ data.signup_data # NoSignup) =>
                \A u \in UserChoices(us, e) :
                    verify_code_result(e, data.verification_code, u,
                                       "user_insert") = "UserNotCreated"

\* C26 as stated: a token of a signed-out session whose denylist entry is
\* live is not accepted by validate_token when the denylist lookup fails.
C26_FailedLookupNotAbsent ==
    \A t \in Presentable :
        (t.jid \in signedOut /\ session_in_black_list(t.jid, NoFault)) =>
            validate_token(t, t.is_refresh, "blacklist_get") # "ok"

\* C24 as stated: when a refresh_token call that was suspended before
\* update_session returns right after another refresh_token call that
\* presented the same token and rotated it (the row holds what that call
\* wrote), both have returned a pair, the row holds the refresh token of the
\* call that wrote last and the refresh token returned by the other call is
\* rejected.
C24_OtherRefreshTokenRejected ==
    [][ \A p \in Slots :
            ( /\ pend[p].kind = "refresh" /\ pend'[p] = Idle
              /\ last.op = "refresh_token" /\ last.res = "ok"
              /\ last.tok = pend[p].tok /\ last.refresh # last.tok
              /\ pend[p].sid \in DOMAIN sessions
              /\ sessions[pend[p].sid].refresh_token = last.refresh ) =>
                /\ sessions'[pend[p].sid].refresh_token = pend[p].refresh
                /\ \A other \in {last.refresh} :
                        refresh_token_check(other, NoFault)' = "InvalidToken"
      ]_vars

\* C24: in that step both calls have returned a pair, the row holds the
\* refresh token of the call that wrote last, and the refresh token returned
\* by the other call is rejected when it is another token; two calls that
\* mint in the same tick return the same pair, which is not rejected as
\* invalid.
C24_ConcurrentRefresh ==
    [][ \A p \in Slots :
            ( /\ pend[p].kind = "refresh" /\ pend'[p] = Idle
              /\ last.op = "refresh_token" /\ last.res = "ok"
              /\ last.tok = pend[p].tok /\ last.refresh # last.tok
              /\ pend[p].sid \in DOMAIN sessions
              /\ sessions[pend[p].sid].refresh_token = last.refresh ) =>
                /\ last'.op = "refresh_token" /\ last'.res = "ok"
                /\ last'.tok = last.tok
                /\ last'.refresh = pend[p].refresh
                /\ {last.refresh, last'.refresh} \subseteq issued'
                /\ pend[p].sid \in DOMAIN sessions'
                /\ sessions'[pend[p].sid].refresh_token = last'.refresh
                /\ \A other \in {last.refresh} :
                     /\ other # last'.refresh =>
                            refresh_token_check(other, NoFault)'
                                = "InvalidToken"
                     /\ other = last'.refresh =>
                            /\ pend[p].at = other.iat
                            /\ refresh_token_check(other, NoFault)'
                                    # "InvalidToken"
      ]_vars

\* the row holds the refresh token a call returned, and a refresh token
\* minted later for the same session has been returned and is rejected
C24_Witness ==
    /\ last.op = "refresh_token" /\ last.res = "ok"
    /\ last.sid \in DOMAIN sessions
    /\ sessions[last.sid].refresh_token = last.refresh
    /\ refresh_token_check(last.refresh, NoFault) = "ok"
    /\ \E t \in issued :
        /\ t.is_refresh /\ t.jid = last.sid /\ t.iat > last.refresh.iat
        /\ t.exp > clock
        /\ refresh_token_check(t, NoFault) = "InvalidToken"

\* C23 as stated: when a verify_code call that read the record and was
\* suspended resumes right after another verify_code call for the same
\* email returned a token pair, it does not return a token pair as well.
C23_SingleUseUnderConcurrency ==
    [][ \A p \in Slots :
            ( /\ pend[p].kind = "verify" /\ pend'[p] = Idle
              /\ last.op = "verify_code" /\ last.res = "ok"
              /\ last.email = pend[p].email /\ last.code = pend[p].code ) =>
                ~ ( /\ last'.op = "verify_code" /\ last'.res = "ok"
                    /\ last'.sid # last.sid
                    /\ last'.sid \in DOMAIN sessions' )
      ]_vars

\* C25 as stated: the users table holds at most one row per email.
C25_EmailUniqueness ==
    \A e \in Emails : Cardinality(UsersByEmail(users, e)) <= 1

\* C27 as stated: a token encoded with an expire_token above zero carries
\* exp = iat + expire_token and decodes at that instant.
C27_RoundTripAnyTtl ==
    (last.op = "encode" /\ expire_delta(last.expire_token) > 0) =>
        /\ last.token.exp * SubTicks
                = last.token.iat * SubTicks + expire_delta(last.expire_token)
        /\ decode(last.token, last.now).err = "ok"

\* C27: a token carries iat = the tick of the instant it was encoded in and
\* exp = the tick of that instant plus expire_token; for an expire_token of
\* whole ticks (every int is) exp = iat + expire_token, otherwise exp - iat
\* is expire_token rounded down or up to whole ticks.  Decoded before its
\* exp, a token gives every field of the payload as it was put in, and its
\* iat and exp.
C27_RoundTrip ==
    LET delta == expire_delta(last.expire_token)
    IN  /\ last.op = "encode" =>
            /\ last.token.iat = timegm(last.now)
            /\ last.token.exp = timegm(last.now + delta)
            /\ last.token \in issued
        /\ \A t \in issued :
            /\ delta % SubTicks = 0 => t.exp = t.iat + delta \div SubTicks
            /\ t.exp - t.iat \in {delta \div SubTicks,
                                  (delta + SubTicks - 1) \div SubTicks}
            /\ t.exp * SubTicks > last.now =>
                /\ decode(t, last.now).err = "ok"
                /\ decode(t, last.now).claims =
                        [sub |-> last.payload.sub, jid |-> last.payload.jid,
                         role |-> last.payload.role,
                         is_refresh |-> last.payload.is_refresh,
                         iat |-> t.iat, exp |-> t.exp]
                /\ get_payload_from_token(t, clock).payload = last.payload
        /\ (last.op = "decode" /\ last.arg \in issued
                /\ last.arg.exp * SubTicks > last.now) =>
            /\ last.out.err = "ok"
            /\ last.out.claims.sub = last.payload.sub
            /\ last.out.claims.jid = last.payload.jid
            /\ last.out.claims.role = last.payload.role
            /\ last.out.claims.is_refresh = last.payload.is_refresh
            /\ last.out.claims.iat = last.arg.iat
            /\ last.out.claims.exp = last.arg.exp

\* an int expire_token above zero: decoded in a later tick, before exp
C27_Witness ==
    /\ last.op = "decode" /\ last.arg \in issued /\ last.out.err = "ok"
    /\ last.expire_token.type = "int" /\ last.expire_token.value > 0
    /\ last.out.claims.exp = last.out.claims.iat + last.expire_token.value
    /\ timegm(last.now) > last.arg.iat
    /\ last.out.claims.sub = last.payload.sub
    /\ last.out.claims.role = last.payload.role

\* C28: a token encoded with expire_token 0 has exp = iat, and decoding it
\* at the instant it was encoded or later raises ExpiredSignatureError
\* (TokenExpired in the service).
C28_ExpiryBoundary ==
    /\ \A t \in issued :
        /\ expire_delta(last.expire_token) = 0 => t.exp = t.iat
        /\ t.exp = t.iat =>
            /\ decode(t, last.now).err = "ExpiredSignatureError"
            /\ get_payload_from_token(t, clock).err = "TokenExpired"
    /\ (last.op = "decode" /\ last.arg \in issued
            /\ last.arg.exp = last.arg.iat) =>
                last.out.err = "ExpiredSignatureError"

\* TestJWTHandler.test_decode_expired_token: encode with 0, decode at once
C28_Witness ==
    /\ last.op = "decode" /\ last.arg = last.token /\ last.at = last.now
    /\ last.expire_token = [type |-> "int", value |-> 0]
    /\ last.arg.exp = last.arg.iat
    /\ last.arg.exp * SubTicks = last.now
    /\ last.out.err = "ExpiredSignatureError"

C30_StatusCodesDefined ==
    LET answered ==
            {auth_request_result(op, e, NoFault) :
                    op \in {"signup", "signin"}, e \in Emails}
            \cup {validate_token(t, FALSE, NoFault) :
                        t \in Presentable \cup Forged}
            \cup {refresh_token_check(t, NoFault) :
                        t \in Presentable \cup Forged}
    IN  \A kind \in Taxonomy \cup (answered \ {"ok", "error"}) :
            /\ http_exception_handler(kind).status_code # None
            /\ http_exception_handler(kind).content.detail # None

C32_ValidateIsPureRead ==
    [][ (\E t \in Presentable \cup Forged : Validate(t, NoFault)) =>
            UNCHANGED <<users, sessions, codes, blacklist>> ]_vars

\* validate_token accepts one token handed out and rejects another as
\* invalid and a third as expired, with rows, a record and a denylist entry
\* in the stores
C32_Witness ==
    /\ \E t \in Presentable : validate_token(t, FALSE, NoFault) = "ok"
    /\ \E t \in Presentable :
        /\ ~t.is_refresh /\ t.exp > clock
        /\ validate_token(t, FALSE, NoFault) = "InvalidToken"
    /\ \E t \in Presentable : validate_token(t, FALSE, NoFault) = "TokenExpired"
    /\ DOMAIN sessions # {} /\ DOMAIN blacklist # {}
    /\ \E e \in Emails : codes[e] # NoRecord

\* C33: in every state the refresh token stored in a session row is a
\* refresh token signed by the service whose jid is the id of the row and
\* whose sub is the user_id of the row.
C33_TokenSessionBinding ==
    \A s \in DOMAIN sessions :
        /\ sessions[s].refresh_token.is_refresh
        /\ sessions[s].refresh_token.sig = PrivateKey
        /\ sessions[s].refresh_token.jid = s
        /\ sessions[s].refresh_token.sub = sessions[s].user_id

\* two rows of two users, one of them rotated by refresh_token
C33_Witness ==
    /\ Cardinality(DOMAIN sessions) = 2
    /\ \E s \in DOMAIN sessions : \E r \in DOMAIN sessions :
        /\ sessions[s].user_id # sessions[r].user_id
        /\ sessions[s].refresh_token.iat > 0
        /\ sessions[s].refresh_token.jid = s
        /\ sessions[r].refresh_token.jid = r
        /\ last.op = "refresh_token" /\ last.res = "ok" /\ last.sid = s

\* C34: verify_code with a code other than the stored one answers
\* VerificationCodeIncorrect and changes nothing: the record is kept as it
\* is, no user and no session is created, and the answer verify_code gives
\* to the stored code is the same after the call as before it.
C34_WrongCodeKeepsRecord ==
    /\ [](\A e \in Emails : \A c \in Codes :
            (/\ get_verification_code(e, NoFault) # NoRecord
             /\ c # codes[e].verification_code)
            => \A u \in 0..Len(users) :
                verify_code_result(e, c, u, NoFault) = "VerificationCodeIncorrect")
    /\ [][ \A e \in Emails : \A c \in Codes :
            (/\ get_verification_code(e, NoFault) # NoRecord
             /\ c # codes[e].verification_code
             /\ VerifyCode(e, c, NoFault))
            => /\ UNCHANGED <<users, sessions, codes, nextSid, issued>>
               /\ \A right \in {codes[e].verification_code} :
                  \A u \in 0..Len(users) :
                    verify_code_result(e, right, u, NoFault)'
                        = verify_code_result(e, right, u, NoFault)
         ]_vars

\* a live record for which a wrong code is refused and the stored code is
\* accepted, for a signup and for a signin
C34_Witness ==
    /\ \E e \in Emails : \E c \in Codes : \E u \in 0..Len(users) :
        /\ codes[e].signup_data = NoSignup
        /\ verify_code_result(e, c, u, NoFault) = "VerificationCodeIncorrect"
        /\ verify_code_result(e, codes[e].verification_code, u, NoFault) = "ok"
    /\ \E e \in Emails : \E c \in Codes : \E u \in 1..(Len(users) + 1) :
        /\ codes[e].signup_data # NoSignup
        /\ verify_code_result(e, c, u, NoFault) = "VerificationCodeIncorrect"
        /\ verify_code_result(e, codes[e].verification_code, u, NoFault) = "ok"

\* C35: a refresh_token call that is refused, for whichever reason, changes
\* neither the sessions table nor the denylist (nor the users table or the
\* clock, the rest of what refresh_token reads): a step that changes one of
\* them is a refresh_token call only if the call is accepted.  The refresh token stored in
\* each row is therefore answered after the call as it was before it.
C35_FailedRefreshChangesNothing ==
    [][ \/ /\ UNCHANGED <<clock, users, sessions, blacklist>>
           /\ \A s \in DOMAIN sessions :
              \A current \in {sessions[s].refresh_token} :
                refresh_token_check(current, NoFault)'
                    = refresh_token_check(current, NoFault)
        \/ \A t \in Presentable \cup Forged :
            Refresh(t, NoFault) => refresh_token_check(t, NoFault) = "ok"
      ]_vars

\* a superseded refresh token of a live session is refused while the stored
\* one is accepted, and tokens refused for the other reasons are at hand
C35_Witness ==
    /\ \E t \in Presentable :
        /\ validate_token(t, TRUE, NoFault) = "ok"
        /\ t.jid \in DOMAIN sessions
        /\ t # sessions[t.jid].refresh_token
        /\ refresh_token_check(t, NoFault) = "InvalidToken"
        /\ refresh_token_check(sessions[t.jid].refresh_token, NoFault) = "ok"
    /\ \E t \in Presentable :
        /\ t.is_refresh /\ t.exp > clock /\ t.jid \in DOMAIN blacklist
        /\ refresh_token_check(t, NoFault) = "InvalidToken"
    /\ \E t \in Presentable :
        /\ ~t.is_refresh /\ t.exp > clock
        /\ refresh_token_check(t, NoFault) = "InvalidToken"

\* C36: signout(s) and refresh_token with a token of session s change the
\* row and the denylist entry of s only: every other row stays as it is,
\* every other denylist entry stays as it is, and every issued token of
\* another session is answered by validate_token and by refresh_token as
\* it was before the call.
C36_SessionIsolation ==
    [][ \A s \in SessionIds :
            (\/ Signout(s, NoFault)
             \/ \E t \in Presentable \cup Forged :
                    t.jid = s /\ Refresh(t, NoFault))
            => /\ \A r \in DOMAIN sessions \ {s} :
                    r \in DOMAIN sessions' /\ sessions'[r] = sessions[r]
               /\ DOMAIN sessions' \ {s} = DOMAIN sessions \ {s}
               /\ DOMAIN blacklist' \ {s} = DOMAIN blacklist \ {s}
               /\ \A r \in DOMAIN blacklist \ {s} : blacklist'[r] = blacklist[r]
               /\ \A t \in {x \in issued : x.jid # s} :
                    /\ validate_token(t, t.is_refresh, NoFault)'
                            = validate_token(t, t.is_refresh, NoFault)
                    /\ refresh_token_check(t, NoFault)'
                            = refresh_token_check(t, NoFault)
      ]_vars

\* one of two sessions of the same user has just been signed out, or has
\* just been refreshed, and the other one still refreshes
C36_Witness ==
    /\ last.op \in {"signout", "refresh_token"}
    /\ \E r \in DOMAIN sessions \ {last.sid} :
        /\ refresh_token_check(sessions[r].refresh_token, NoFault) = "ok"
        /\ \E t \in issued : t.jid = last.sid /\ t.sub = sessions[r].user_id
        /\ last.op = "signout" => last.sid \in DOMAIN blacklist

\* C37: when signout answers True the row is gone and the denylist holds
\* the session id; when the row was deleted and the denylist write failed,
\* signout answers False, the row stays deleted, the denylist has no entry
\* for the session, and every access token of the session that has not
\* expired is still accepted by validate_token.
C37_SignoutDenylistWriteFails ==
    /\ (last.op = "signout" /\ last.res = "True") =>
            /\ last.sid \notin DOMAIN sessions
            /\ last.sid \in DOMAIN blacklist
            /\ blacklist[last.sid] = clock + access_token_expire_minutes
    /\ (last.op = "signout" /\ last.res = "False") =>
            /\ last.sid \notin DOMAIN sessions
            /\ last.sid \in deleted \ signedOut
    /\ \A s \in deleted \ signedOut :
            /\ s \notin DOMAIN sessions
            /\ s \notin DOMAIN blacklist
            /\ \A t \in issued :
                (t.jid = s /\ ~t.is_refresh /\ t.exp > clock)
                    => validate_token(t, FALSE, NoFault) = "ok"

\* signout has just answered False after deleting the row, and an access
\* token of that session is accepted
C37_Witness ==
    /\ last.op = "signout" /\ last.res = "False"
    /\ last.sid \in deleted /\ last.sid \notin DOMAIN sessions
    /\ \E t \in issued :
        /\ t.jid = last.sid /\ ~t.is_refresh
        /\ validate_token(t, FALSE, NoFault) = "ok"

\* C38: what validate_token answers for a token is decided by the token, the
\* clock and the denylist: a step that changes the users table or the
\* sessions table and leaves the clock and the denylist as they are (a user
\* deactivated or removed, a session opened or rotated) changes the answer
\* for no token.
C38_ValidateReadsTokenClockDenylist ==
    [][ (UNCHANGED <<clock, blacklist>> /\ ~UNCHANGED <<users, sessions>>)
            => \A t \in Presentable \cup Forged :
                    validate_token(t, FALSE, NoFault)'
                        = validate_token(t, FALSE, NoFault)
      ]_vars

\* the user of an accepted access token has just been deactivated, with a
\* second session open
C38_Witness ==
    /\ last = Maintenance
    /\ Cardinality(DOMAIN sessions) = 2
    /\ \E t \in Presentable :
        /\ validate_token(t, FALSE, NoFault) = "ok"
        /\ users[t.sub] # NoUser /\ ~users[t.sub].is_active
        /\ t.jid \in DOMAIN sessions

\* C39: when request_signup or request_signin has answered with an error
\* after storing the record (the mail was not delivered), the record of
\* that email is the one the request wrote, with its code, its data and a
\* full lifetime; verify_code does not refuse that code, and it succeeds
\* with it as it does after a delivered request: for a signup, and for a
\* signin of an active user.
C39_RecordKeptWhenDeliveryFails ==
    (last.op \in {"signup", "signin"} /\ last.res = "error") =>
        /\ codes[last.email] = [verification_code |-> last.code,
                                signup_data |-> last.data,
                                exp |-> clock + verification_code_expiration_seconds]
        /\ get_verification_code(last.email, NoFault) = codes[last.email]
        /\ \A u \in UserChoices(verify_code_users(codes[last.email], NoFault),
                                last.email) :
            /\ verify_code_result(last.email, last.code, u, NoFault)
                    # "VerificationCodeIncorrect"
            /\ (last.op = "signin" => users[u].is_active)
                    => verify_code_result(last.email, last.code, u, NoFault) = "ok"

\* a signup whose mail was not delivered has replaced an earlier record
C39_Witness ==
    /\ last.op = "signup" /\ last.res = "error" /\ last.replaced
    /\ codes[last.email].verification_code = last.code
    /\ \E u \in UserChoices(verify_code_users(codes[last.email], NoFault),
                            last.email) :
            verify_code_result(last.email, last.code, u, NoFault) = "ok"

====
